---- MODULE Spec2Model ----
(***************************************************************************)
(* Model of the analysis command surface of the TransRapport desktop       *)
(* backend (desktop/src-tauri/src/analysis_commands.rs).                   *)
(*                                                                         *)
(* The three Tauri commands analyze_transcript, get_analysis_progress and  *)
(* calculate_rapport keep no state of their own: each one logs and returns *)
(* a value built from literals.  The state of the model is therefore the   *)
(* caller's view of the backend: the sequence of completed invocations     *)
(* with their arguments and the Result each one returned.                  *)
(*                                                                         *)
(* Numbers: every f64 of the source that is a fraction (progress, value,   *)
(* confidence) is kept in hundredths, so 0.60 is 60 and 0.7 is 70; times   *)
(* and timestamps are whole seconds, so 60.0 is 60.                        *)
(***************************************************************************)
EXTENDS Integers, Sequences, FiniteSets

VARIABLES history

vars == <<history>>

(* ------------------------------ bounds --------------------------------- *)

\* Number of command invocations a behaviour records.
MaxCalls == 3

\* Longest transcript handed to analyze_transcript.
MaxSegments == 1

\* Longest marker list handed to calculate_rapport.
MaxMarkers == 1

(* ------------------------------ inputs --------------------------------- *)

SessionIds == {"s1", "s2"}

\* transcription_commands::SpeakerSegment, the fields the claims read.
SpeakerSegment(start_time, end_time, text, confidence) ==
    [start_time |-> start_time, end_time |-> end_time,
     text |-> text, confidence |-> confidence]

\* One well-formed segment and one segment per way of being malformed:
\* end_time <= start_time, confidence outside [0,1], empty text.
SegmentPool ==
    << SpeakerSegment(0, 6, "hello", 90),
       SpeakerSegment(6, 6, "again", 80),
       SpeakerSegment(7, 9, "fine", 120),
       SpeakerSegment(9, 12, "", 50) >>

\* analysis_commands::MarkerEvent, the fields the claims read.
MarkerEvent(id, marker_type, start_time, end_time, confidence) ==
    [id |-> id, marker_type |-> marker_type, start_time |-> start_time,
     end_time |-> end_time, confidence |-> confidence]

MarkerPool ==
    << MarkerEvent("ATO_001", "ATO", 40, 45, 80),
       MarkerEvent("SEM_007", "SEM", 100, 110, 60) >>

\* The subsequences of pool of length at most n, in pool order.
RECURSIVE SubSeqsFrom(_, _, _)
SubSeqsFrom(pool, from, n) ==
    IF n = 0 \/ from > Len(pool)
    THEN {<<>>}
    ELSE SubSeqsFrom(pool, from + 1, n)
         \cup {<<pool[from]>> \o s : s \in SubSeqsFrom(pool, from + 1, n - 1)}

Transcripts == SubSeqsFrom(SegmentPool, 1, MaxSegments)

MarkerLists == SubSeqsFrom(MarkerPool, 1, MaxMarkers)

(* ------------------------------ results -------------------------------- *)

\* Rust's Result<T, String>.
Ok(v) == [ok |-> TRUE, value |-> v]

Err(e) == [ok |-> FALSE, value |-> e]

\* analysis_commands::RapportIndicator.
RapportIndicator(timestamp, value, trend, contributing_markers) ==
    [timestamp |-> timestamp, value |-> value, trend |-> trend,
     contributing_markers |-> contributing_markers]

\* analysis_commands::AnalysisProgress.
AnalysisProgress(session_id, progress, current_stage, markers_detected) ==
    [session_id |-> session_id, progress |-> progress,
     current_stage |-> current_stage, markers_detected |-> markers_detected]

\* The stage names of AnalysisProgress.current_stage, in pipeline order.
Stages == <<"ATO", "SEM", "CLU", "MEMA", "Rapport">>

StageIndex(stage) == CHOOSE k \in 1..Len(Stages) : Stages[k] = stage

(* ----------------------------- commands -------------------------------- *)

\* analyze_transcript: logs the session id and returns Ok; the segments
\* are not read and nothing is stored.
analyze_transcript_result(session_id, transcript_segments) ==
    Ok("Analysis started successfully")

\* Off-by-one variant: the stage index counted from zero.
get_analysis_progress_zero_based(session_id) ==
    Ok(AnalysisProgress(session_id, 40, "CLU", 15))

\* get_analysis_progress: returns the same snapshot for every session id.
get_analysis_progress_result(session_id) ==
    Ok(AnalysisProgress(session_id, 60, "CLU", 15))

\* Variant that stamps both indicators with the first window's timestamp.
calculate_rapport_same_timestamp(session_id, markers) ==
    Ok(<< RapportIndicator(60, 70, "increasing", <<"ATO_001", "SEM_003">>),
          RapportIndicator(60, 80, "stable", <<"CLU_002">>) >>)

\* calculate_rapport: returns the same two indicators for every marker list.
calculate_rapport_result(session_id, markers) ==
    Ok(<< RapportIndicator(60, 70, "increasing", <<"ATO_001", "SEM_003">>),
          RapportIndicator(120, 80, "stable", <<"CLU_002">>) >>)

\* One completed invocation as the caller saw it.
Call(op, session_id, transcript_segments, markers, result) ==
    [op |-> op, session_id |-> session_id,
     transcript_segments |-> transcript_segments,
     markers |-> markers, result |-> result]

Init == history = <<>>

AnalyzeTranscript ==
    \E session_id \in SessionIds, transcript_segments \in Transcripts :
        /\ Len(history) < MaxCalls
        /\ history' = Append(history,
               Call("analyze_transcript", session_id, transcript_segments, <<>>,
                    analyze_transcript_result(session_id, transcript_segments)))

GetAnalysisProgress ==
    \E session_id \in SessionIds :
        /\ Len(history) < MaxCalls
        /\ history' = Append(history,
               Call("get_analysis_progress", session_id, <<>>, <<>>,
                    get_analysis_progress_result(session_id)))

CalculateRapport ==
    \E session_id \in SessionIds, markers \in MarkerLists :
        /\ Len(history) < MaxCalls
        /\ history' = Append(history,
               Call("calculate_rapport", session_id, <<>>, markers,
                    calculate_rapport_result(session_id, markers)))

Next == AnalyzeTranscript \/ GetAnalysisProgress \/ CalculateRapport

Spec == Init /\ [][Next]_vars

(* ------------------------- reading the history ------------------------- *)

Calls == DOMAIN history

IsCall(i, op) == history[i].op = op

\* Segment Model validation rule: end after start, confidence in [0,1],
\* text not empty.
ValidSegment(s) ==
    /\ s.end_time > s.start_time
    /\ s.confidence >= 0 /\ s.confidence <= 100
    /\ s.text # ""

ValidTranscript(t) == \A k \in DOMAIN t : ValidSegment(t[k])

\* A run was started for session_id by an invocation before position j.
StartedBefore(session_id, j) ==
    \E i \in Calls :
        /\ i < j
        /\ IsCall(i, "analyze_transcript")
        /\ history[i].session_id = session_id
        /\ history[i].result.ok

Range(seq) == {seq[k] : k \in DOMAIN seq}

MarkerIds(markers) == {markers[k].id : k \in DOMAIN markers}

\* Trend of a value against its predecessor with a dead band of 0.05.
TrendOf(prev, cur) ==
    IF cur - prev > 5 THEN "increasing"
    ELSE IF prev - cur > 5 THEN "decreasing"
    ELSE "stable"

(* ------------------------------- claims -------------------------------- *)

\* C1: a second analyze_transcript for a session whose first run has not
\* completed is rejected with JobAlreadyRunning (at most one non-terminal
\* Analysis Job per session id).  No command of the backend completes or
\* cancels a run, so every started run is still non-terminal.
C1_SecondStartRejected ==
    \A i, j \in Calls :
        ( /\ i < j
          /\ IsCall(i, "analyze_transcript") /\ IsCall(j, "analyze_transcript")
          /\ history[i].session_id = history[j].session_id
          /\ ValidTranscript(history[i].transcript_segments)
          /\ ValidTranscript(history[j].transcript_segments)
          /\ history[i].result.ok )
        => history[j].result = Err("JobAlreadyRunning")

\* C2: get_analysis_progress for a session id on which no run was ever
\* started fails with NotFound.
C2_UnknownSessionNotFound ==
    \A j \in Calls :
        ( /\ IsCall(j, "get_analysis_progress")
          /\ ~StartedBefore(history[j].session_id, j) )
        => ( /\ ~history[j].result.ok
             /\ history[j].result.value = "NotFound" )

\* C3: analyze_transcript on a transcript with a malformed segment
\* (end_time <= start_time, confidence outside [0,1] or empty text) fails
\* with InvalidInput, so no run starts.
C3_InvalidInputRejected ==
    \A i \in Calls :
        ( /\ IsCall(i, "analyze_transcript")
          /\ ~ValidTranscript(history[i].transcript_segments) )
        => history[i].result = Err("InvalidInput")

\* C4: in every series calculate_rapport returns, the first indicator's
\* trend is stable and every later indicator's trend is the dead-band
\* comparison of its value with the value of the indicator before it.
C4_TrendFollowsPredecessor ==
    \A i \in Calls :
        (IsCall(i, "calculate_rapport") /\ history[i].result.ok) =>
            LET series == history[i].result.value IN
            /\ Len(series) > 0 => series[1].trend = "stable"
            /\ \A k \in 2..Len(series) :
                   series[k].trend = TrendOf(series[k - 1].value, series[k].value)

\* C5: in every series calculate_rapport returns, every value lies in
\* [-1,1] and the timestamps strictly increase along the series.
C5_ValuesClampedTimestampsIncrease ==
    \A i \in Calls :
        (IsCall(i, "calculate_rapport") /\ history[i].result.ok) =>
            LET series == history[i].result.value IN
            /\ \A k \in DOMAIN series :
                   series[k].value >= -100 /\ series[k].value <= 100
            /\ \A k, l \in DOMAIN series :
                   k < l => series[k].timestamp < series[l].timestamp

\* C5 witness: calculate_rapport has returned a series of at least two
\* indicators for a non-empty marker list.
C5_Witness ==
    \E i \in Calls :
        /\ IsCall(i, "calculate_rapport")
        /\ history[i].markers # <<>>
        /\ history[i].result.ok
        /\ Len(history[i].result.value) >= 2

\* C6: every identifier an indicator lists as contributing is the id of
\* an input marker, and with no input marker (no window is intersected)
\* every indicator has an empty contributing set and value 0.0.
C6_ContributingMarkersFromInput ==
    \A i \in Calls :
        (IsCall(i, "calculate_rapport") /\ history[i].result.ok) =>
            LET series == history[i].result.value IN
            \A k \in DOMAIN series :
                /\ Range(series[k].contributing_markers)
                       \subseteq MarkerIds(history[i].markers)
                /\ history[i].markers = <<>> =>
                       ( /\ series[k].contributing_markers = <<>>
                         /\ series[k].value = 0 )

====
